---- MODULE Spec2Model ----
(***************************************************************************)
(* A model of the Factur-X invoice compiler of invoice_app:                *)
(*   invoice_logic.get_tax_scheme, invoice_logic.parse_address_fields and  *)
(*   invoice_logic.generate_facturx_xml,                                   *)
(* of the invoice counter and 'Generate Invoice' of the form (app.py), and *)
(* of the REST endpoint POST /generate-xml (api.py).                       *)
(*                                                                         *)
(* Strings are sequences of one-character strings.  Python floats are      *)
(* fixed-point integers (see Scale); a date is its day ordinal.            *)
(***************************************************************************)
EXTENDS Integers, Sequences, FiniteSets, TLC

VARIABLES
    today,        \* datetime.date.today(): the clock's day ordinal
    data,         \* the invoice record handed to generate_facturx_xml
    xml,          \* what the last call of generate_facturx_xml on data did
    prev_xml,     \* what the call before it on the same data did
    tax_id,       \* argument of a direct call of get_tax_scheme
    tax_scheme,   \* its result
    lines,        \* argument of a direct call of parse_address_fields
    address,      \* its result
    calls,        \* the calls of generate_facturx_xml in flight, each with its locals
    namespace_map,  \* ElementTree's registry of namespace prefixes
    counter_file,   \* the file .invoice_counter
    sessions,     \* the form's sessions: session state and the position in the script
    api           \* the REST endpoint: the request last posted and what was done with it

vars == <<today, data, xml, prev_xml, tax_id, tax_scheme, lines, address,
          calls, namespace_map, counter_file, sessions, api>>

\* what the compiler called on one record leaves alone
otherVars == <<calls, namespace_map, counter_file, sessions, api>>

---------------------------------------------------------------------------
(* Bounds *)

MaxIdLen == 4      \* longest tax identifier drawn
MaxLineLen == 4    \* longest last address line drawn
MaxItems == 2      \* most line items of a record
MaxDay == 1        \* the clock runs over the days 0 .. MaxDay
MaxCalls == 2      \* most calls of generate_facturx_xml in flight
MaxSessions == 2   \* most sessions of the form
MaxCount == 2      \* the highest count written to .invoice_counter

---------------------------------------------------------------------------
(* Python values.  A dict key is absent, or holds None, a str or a number. *)

Absent == [k |-> "absent", s |-> <<>>, v |-> 0]
None == [k |-> "none", s |-> <<>>, v |-> 0]
Str(s) == [k |-> "str", s |-> s, v |-> 0]
Num(v) == [k |-> "num", s |-> <<>>, v |-> v]

\* dict.get(key, default)
Get(field, default) == IF field.k = "absent" THEN default ELSE field

\* bool(x) of a value: None, "" and 0 are falsy
Truthy(x) ==
    CASE x.k = "str" -> x.s # <<>>
      [] x.k = "num" -> x.v # 0
      [] OTHER -> FALSE

RECURSIVE SeqsUpTo(_, _)
\* every sequence over S of length 0 .. n
SeqsUpTo(S, n) ==
    IF n = 0 THEN {<<>>}
    ELSE LET shorter == SeqsUpTo(S, n - 1)
         IN  shorter \cup {Append(s, c) : s \in shorter, c \in S}

---------------------------------------------------------------------------
(* str methods *)

IsAlphaChar(c) == c \in {"B", "D"}
IsDigitChar(c) == c \in {"1", "2"}
IsWhitespace(c) == c \in {" ", "\t"}

\* s.isalpha(), s.isdigit(): every character is one, and there is at least one
isalpha(s) == Len(s) > 0 /\ \A i \in 1..Len(s) : IsAlphaChar(s[i])
isdigit(s) == Len(s) > 0 /\ \A i \in 1..Len(s) : IsDigitChar(s[i])

\* s.replace(" ", "")
RemoveSpaces(s) == SelectSeq(s, LAMBDA c : c # " ")

RECURSIVE lstrip(_)
lstrip(s) == IF s # <<>> /\ IsWhitespace(Head(s)) THEN lstrip(Tail(s)) ELSE s

RECURSIVE rstrip(_)
rstrip(s) ==
    IF s # <<>> /\ IsWhitespace(s[Len(s)]) THEN rstrip(SubSeq(s, 1, Len(s) - 1)) ELSE s

\* s.strip()
strip(s) == rstrip(lstrip(s))

\* s.split(" ", 1): cut at the first space, if there is one
SplitFirstSpace(s) ==
    LET at == {i \in 1..Len(s) : s[i] = " "}
    IN  IF at = {} THEN <<s>>
        ELSE LET i == CHOOSE j \in at : \A m \in at : j <= m
             IN  <<SubSeq(s, 1, i - 1), SubSeq(s, i + 1, Len(s))>>

---------------------------------------------------------------------------
(* get_tax_scheme(tax_id) -> (clean_id, scheme) *)

NoneNone == [clean_id |-> None, scheme |-> "None"]

\* (a variant without the length test)
get_tax_scheme_any_length(id) ==
    IF ~Truthy(id) THEN NoneNone
    ELSE LET clean_id == strip(RemoveSpaces(id.s))
         IN  IF Len(clean_id) >= 2 /\ isalpha(SubSeq(clean_id, 1, 2))
             THEN [clean_id |-> Str(clean_id), scheme |-> "VA"]
             ELSE [clean_id |-> Str(clean_id), scheme |-> "FC"]

get_tax_scheme(id) ==
    IF ~Truthy(id) THEN NoneNone
    ELSE LET clean_id == strip(RemoveSpaces(id.s))
         IN  IF Len(clean_id) > 2 /\ isalpha(SubSeq(clean_id, 1, 2))
             THEN [clean_id |-> Str(clean_id), scheme |-> "VA"]
             ELSE [clean_id |-> Str(clean_id), scheme |-> "FC"]

---------------------------------------------------------------------------
(* parse_address_fields(lines) -> (line_one, postcode, city) *)

\* (a variant that takes the first part as postcode only when it alone is numeric)
parse_address_fields_city_first(ls) ==
    LET line_one == IF Len(ls) > 0 THEN ls[1] ELSE <<>>
        last_line == strip(ls[Len(ls)])
        parts == SplitFirstSpace(last_line)
    IN  IF Len(ls) > 1
        THEN IF Len(parts) = 2
             THEN IF isdigit(parts[1]) /\ ~isdigit(parts[2])
                  THEN [line_one |-> line_one, postcode |-> parts[1], city |-> parts[2]]
                  ELSE [line_one |-> line_one, postcode |-> parts[2], city |-> parts[1]]
             ELSE [line_one |-> line_one, postcode |-> <<>>, city |-> last_line]
        ELSE [line_one |-> line_one, postcode |-> <<>>, city |-> <<>>]

parse_address_fields(ls) ==
    LET line_one == IF Len(ls) > 0 THEN ls[1] ELSE <<>>
        last_line == strip(ls[Len(ls)])
        parts == SplitFirstSpace(last_line)
    IN  IF Len(ls) > 1
        THEN IF Len(parts) = 2
             THEN IF isdigit(parts[1])
                  THEN [line_one |-> line_one, postcode |-> parts[1], city |-> parts[2]]
                  ELSE IF isdigit(parts[2])
                  THEN [line_one |-> line_one, postcode |-> parts[2], city |-> parts[1]]
                  ELSE [line_one |-> line_one, postcode |-> parts[2], city |-> parts[1]]
             ELSE [line_one |-> line_one, postcode |-> <<>>, city |-> last_line]
        ELSE [line_one |-> line_one, postcode |-> <<>>, city |-> <<>>]

---------------------------------------------------------------------------
(* Numbers.  A number of a record is given in quarters: Num(n) is n/4, so   *)
(* that every quantity and price drawn is an exact binary float.  A float   *)
(* is a fixed-point integer, Scale units to 1.0 (a sixteenth is 625 units,   *)
(* a cent 100): on the values drawn here every product and quotient the     *)
(* compiler forms is a whole number of units, as it is exact (or off by far *)
(* less than half a cent) in binary.                                        *)

Scale == 100 * 100
Cent == Scale \div 100

Whole(n) == Num(4 * n)
Date(d) == [k |-> "date", s |-> <<>>, v |-> d]
\* a tuple of two dates, as the form's date-range input gives it
DateRange(from, to) == [k |-> "range", s |-> <<>>, v |-> from, to |-> to]

Mul(a, b) == (a * b) \div Scale
Div(a, b) == IF b % Scale = 0 THEN a \div (b \div Scale) ELSE (a * Scale) \div b

\* n/d rounded to the nearest integer, a tie to the even one
RoundHalfEven(n, d) ==
    LET q == n \div d
        r == n % d
    IN  IF 2 * r < d THEN q
        ELSE IF 2 * r > d THEN q + 1
        ELSE IF q % 2 = 0 THEN q ELSE q + 1

\* round(x, 2): correctly rounded, half to even
round2(x) == RoundHalfEven(x, Cent) * Cent

RECURSIVE ParseDigits(_)
ParseDigits(s) ==
    IF s = <<>> THEN 0
    ELSE 10 * ParseDigits(SubSeq(s, 1, Len(s) - 1)) + (IF s[Len(s)] = "1" THEN 1 ELSE 2)

\* float(x): None raises TypeError, a str that is no number raises ValueError
float(x) ==
    CASE x.k = "num" -> [ok |-> TRUE, f |-> x.v * (Scale \div 4)]
      [] x.k = "str" /\ isdigit(x.s) -> [ok |-> TRUE, f |-> ParseDigits(x.s) * Scale]
      [] OTHER -> [ok |-> FALSE, f |-> 0]

---------------------------------------------------------------------------
(* The document tree.  An element is a tag, at most one attribute and a     *)
(* text; a node's children are a sequence, in document order.  A literal of *)
(* the source is a one-token string.                                        *)

Lit(token) == Str(<<token>>)
El(tag, attr, text) == [tag |-> tag, attr |-> attr, text |-> text]

\* f"{x:.2f}": the text, as its number of hundredths (the sign of a negative
\* zero, "-0.00", is not kept)
Fmt2(x) == [k |-> "amount", s |-> <<>>, v |-> RoundHalfEven(x, Cent)]
\* the days of month m of year y
DaysInMonth(y, m) ==
    IF m = 2
    THEN (IF y % 4 = 0 /\ (y % 100 # 0 \/ y % 400 = 0) THEN 29 ELSE 28)
    ELSE IF m \in {4, 6, 9, 11} THEN 30 ELSE 31

RECURSIVE DayOfMonth(_, _, _)
\* the date n days after the first of month m of year y
DayOfMonth(y, m, n) ==
    IF n < DaysInMonth(y, m) THEN [year |-> y, month |-> m, day |-> n + 1]
    ELSE IF m = 12 THEN DayOfMonth(y + 1, 1, n - DaysInMonth(y, m))
    ELSE DayOfMonth(y, m + 1, n - DaysInMonth(y, m))

\* a day ordinal as a date: day 0 is 2025-12-20
FromOrdinal(d) == DayOfMonth(2025, 12, d + 19)

\* d.strftime("%Y%m%d"): the text of day d, as the number its digits spell
Fmt102(d) ==
    LET c == FromOrdinal(d)
    IN  [k |-> "yyyymmdd", s |-> <<>>, v |-> c.year * 10000 + c.month * 100 + c.day]

RECURSIVE Decimal(_)
\* the decimal digits of n > 0
Decimal(n) ==
    IF n = 0 THEN <<>>
    ELSE Append(Decimal(n \div 10),
                <<"0", "1", "2", "3", "4", "5", "6", "7", "8", "9">>[(n % 10) + 1])

\* str(n) of a natural number
StrInt(n) == IF n = 0 THEN Str(<<"0">>) ELSE Str(Decimal(n))

Has(children, tag) == \E i \in 1..Len(children) : children[i].tag = tag
Child(children, tag) ==
    children[CHOOSE i \in 1..Len(children) : children[i].tag = tag]
Index(children, tag) == CHOOSE i \in 1..Len(children) : children[i].tag = tag

---------------------------------------------------------------------------
(* generate_facturx_xml(data): the line-item loop *)

\* float(item.get("price", item.get("Price per Hour (EUR)", 0)))
UnitPrice(item) == float(Get(item.price, Get(item.PricePerHour, Num(0))))
\* float(item.get("qty", item.get("Quantity (hours)", 0)))
QtyVal(item) == float(Get(item.qty, Get(item.QuantityHours, Num(0))))
\* float(item.get("vat_percent", 19.0))
TaxPercent(item) == float(Get(item.vat_percent, Whole(19)))

\* (a variant that takes a supplied "Total (EUR)" as the net unless it is zero)
NetLine_trusting_total(item) ==
    IF Truthy(Get(item.Total, None))
    THEN round2(float(item.Total).f)
    ELSE round2(Mul(UnitPrice(item).f, QtyVal(item).f))

\* (a variant that rounds the net only when it is written)
NetLine_unrounded(item) == Mul(UnitPrice(item).f, QtyVal(item).f)

\* net_line = round(unit_price * qty_val, 2)
NetLine(item) == round2(Mul(UnitPrice(item).f, QtyVal(item).f))

\* round(net_line * (tax_percent / 100.0), 2)
TaxLine(item) == round2(Mul(NetLine(item), Div(TaxPercent(item).f, 100 * Scale)))

\* (a variant that writes a GlobalID whether or not its scheme is given)
TradeProduct_without_scheme(item) ==
    (IF Truthy(Get(item.global_id, None))
     THEN <<El("GlobalID", item.global_id_scheme, item.global_id)>>
     ELSE <<>>)
    \o <<El("Name", Absent, Get(item.name, Get(item.Description, Lit("Item"))))>>

\* the optional GlobalID precedes Name inside SpecifiedTradeProduct
TradeProduct(item) ==
    (IF Truthy(Get(item.global_id, None)) /\ Truthy(Get(item.global_id_scheme, None))
     THEN <<El("GlobalID", item.global_id_scheme, item.global_id)>>
     ELSE <<>>)
    \o <<El("Name", Absent, Get(item.name, Get(item.Description, Lit("Item"))))>>

\* (a variant that numbers a line by the identifier its item carries, if any)
LineItem_caller_id(item, idx, unit_code) ==
    <<El("LineID", Absent, Get(item.id, StrInt(idx)))>>
    \o TradeProduct(item)
    \o << El("ChargeAmount", Absent, Fmt2(UnitPrice(item).f)),
          El("BilledQuantity", unit_code, Fmt2(QtyVal(item).f)),
          El("TypeCode", Absent, Lit("VAT")),
          El("CategoryCode", Absent, Lit("S")),
          El("RateApplicablePercent", Absent, Fmt2(TaxPercent(item).f)),
          El("LineTotalAmount", Lit("EUR"), Fmt2(NetLine(item))) >>

\* one IncludedSupplyChainTradeLineItem, its leaves in document order
LineItem(item, idx, unit_code) ==
    <<El("LineID", Absent, StrInt(idx))>>
    \o TradeProduct(item)
    \o << El("ChargeAmount", Absent, Fmt2(UnitPrice(item).f)),
          El("BilledQuantity", unit_code, Fmt2(QtyVal(item).f)),
          El("TypeCode", Absent, Lit("VAT")),
          El("CategoryCode", Absent, Lit("S")),
          El("RateApplicablePercent", Absent, Fmt2(TaxPercent(item).f)),
          El("LineTotalAmount", Lit("EUR"), Fmt2(NetLine(item))) >>

\* a float() of the iteration raises
ItemRaises(item) ==
    ~UnitPrice(item).ok \/ ~QtyVal(item).ok \/ ~TaxPercent(item).ok

RECURSIVE LineItems(_, _)
\* for idx, item in enumerate(items, 1): the fragments and the running totals
\* after the first n items
LineItems(d, n) ==
    IF n = 0
    THEN [raised |-> FALSE, fragments |-> <<>>, total_net |-> 0, total_tax |-> 0]
    ELSE LET before == LineItems(d, n - 1)
             item == d.items[n]
         IN  IF before.raised \/ ItemRaises(item)
             THEN [raised |-> TRUE, fragments |-> <<>>, total_net |-> 0, total_tax |-> 0]
             ELSE [raised |-> FALSE,
                   fragments |-> Append(before.fragments,
                                        LineItem(item, n, Get(d.unit_code, Lit("HUR")))),
                   total_net |-> before.total_net + NetLine(item),
                   total_tax |-> before.total_tax + TaxLine(item)]

---------------------------------------------------------------------------
(* generate_facturx_xml(data): the header *)

\* the children of a PostalTradeAddress: empty fields are left out
PostalTradeAddress(party) ==
    LET a == parse_address_fields(IF party.k = "absent" THEN <<>> ELSE party.address_lines)
    IN  (IF a.postcode # <<>> THEN <<El("PostcodeCode", Absent, Str(a.postcode))>> ELSE <<>>)
        \o (IF a.line_one # <<>> THEN <<El("LineOne", Absent, Str(a.line_one))>> ELSE <<>>)
        \o (IF a.city # <<>> THEN <<El("CityName", Absent, Str(a.city))>> ELSE <<>>)
        \o <<El("CountryID", Absent, Lit("DE"))>>

\* data.get(role, {}).get("name", default)
PartyName(party, default) ==
    IF party.k = "absent" THEN default ELSE Get(party.name, default)

\* (a variant that writes the scheme found as schemeID, whichever it is)
SpecifiedTaxRegistration_always_scheme(d) ==
    IF Truthy(Get(d.sender_tax_id, None))
    THEN LET r == get_tax_scheme(d.sender_tax_id)
         IN  << <<El("ID", Lit(r.scheme), r.clean_id)>> >>
    ELSE <<>>

\* the seller's SpecifiedTaxRegistration elements (none or one), each the
\* sequence of its children
SpecifiedTaxRegistration(d) ==
    IF Truthy(Get(d.sender_tax_id, None))
    THEN LET r == get_tax_scheme(d.sender_tax_id)
         IN  IF r.scheme = "VA"
             THEN << <<El("ID", Lit("VA"), r.clean_id)>> >>
             ELSE << <<El("ID", Absent, r.clean_id)>> >>
    ELSE <<>>

\* AdditionalReferencedDocument, BuyerOrderReferencedDocument
ReferencedDocuments(d) ==
    (IF Truthy(Get(d.project_id, None))
     THEN <<El("AdditionalReferencedDocument.IssuerAssignedID", Absent, d.project_id),
            El("AdditionalReferencedDocument.TypeCode", Absent, Lit("130"))>>
     ELSE <<>>)
    \o (IF Truthy(Get(d.order_id, None))
        THEN <<El("BuyerOrderReferencedDocument.IssuerAssignedID", Absent, d.order_id)>>
        ELSE <<>>)

\* data.get("footer", {}).get("iban", "")
Iban(d) == IF d.footer.k = "absent" THEN Str(<<>>) ELSE Get(d.footer.iban, Str(<<>>))

\* the SpecifiedTradeSettlementPaymentMeans elements, each the sequence of its
\* children: one is emitted on every call
PaymentMeans(d) ==
    << << El("TypeCode", Absent, Lit("58")),
          El("IBANID", Absent, Str(RemoveSpaces(Iban(d).s))) >> >>

\* (a variant that computes the tax from the net at the rate it states)
HeaderTradeTax_at_stated_rate(total_net, total_tax) ==
    << El("CalculatedAmount", Lit("EUR"), Fmt2(Mul(total_net, Div(19 * Scale, 100 * Scale)))),
       El("TypeCode", Absent, Lit("VAT")),
       El("BasisAmount", Lit("EUR"), Fmt2(total_net)),
       El("CategoryCode", Absent, Lit("S")),
       El("RateApplicablePercent", Absent, Fmt2(19 * Scale)) >>

\* the header ApplicableTradeTax, from the running totals
HeaderTradeTax(total_net, total_tax) ==
    << El("CalculatedAmount", Lit("EUR"), Fmt2(total_tax)),
       El("TypeCode", Absent, Lit("VAT")),
       El("BasisAmount", Lit("EUR"), Fmt2(total_net)),
       El("CategoryCode", Absent, Lit("S")),
       El("RateApplicablePercent", Absent, Fmt2(19 * Scale)) >>

\* issue_dt = data.get("date", datetime.date.today())
IssueDate(d, clock) == Get(d.date, Date(clock))

\* due_dt = data.get("due_date"), or issue_dt + timedelta(days=14)
DueDate(d, clock) ==
    IF d.due_date.k = "date" THEN d.due_date ELSE Date(IssueDate(d, clock).v + 14)

\* grand_total = round(round(total_net, 2) + round(total_tax, 2), 2)
GrandTotal(total_net, total_tax) == round2(round2(total_net) + round2(total_tax))

\* (a variant whose amount due leaves out the tax)
MonetarySummation_due_net(total_net, total_tax) ==
    << El("LineTotalAmount", Lit("EUR"), Fmt2(round2(total_net))),
       El("ChargeTotalAmount", Lit("EUR"), Fmt2(0)),
       El("AllowanceTotalAmount", Lit("EUR"), Fmt2(0)),
       El("TaxBasisTotalAmount", Lit("EUR"), Fmt2(round2(total_net))),
       El("TaxTotalAmount", Lit("EUR"), Fmt2(round2(total_tax))),
       El("GrandTotalAmount", Lit("EUR"), Fmt2(GrandTotal(total_net, total_tax))),
       El("DuePayableAmount", Lit("EUR"), Fmt2(round2(total_net))) >>

\* SpecifiedTradeSettlementHeaderMonetarySummation
MonetarySummation(total_net, total_tax) ==
    << El("LineTotalAmount", Lit("EUR"), Fmt2(round2(total_net))),
       El("ChargeTotalAmount", Lit("EUR"), Fmt2(0)),
       El("AllowanceTotalAmount", Lit("EUR"), Fmt2(0)),
       El("TaxBasisTotalAmount", Lit("EUR"), Fmt2(round2(total_net))),
       El("TaxTotalAmount", Lit("EUR"), Fmt2(round2(total_tax))),
       El("GrandTotalAmount", Lit("EUR"), Fmt2(GrandTotal(total_net, total_tax))),
       El("DuePayableAmount", Lit("EUR"), Fmt2(GrandTotal(total_net, total_tax))) >>

---------------------------------------------------------------------------
(* generate_facturx_xml(data).  datetime.date.today() is read twice, for the *)
(* issue date (clock) and later for the payment terms (clock_terms).        *)

NotCalled == [status |-> "none", doc |-> <<>>]
Raised == [status |-> "raised", doc |-> <<>>]

\* (a variant that also refuses a record without items)
Raises_without_items(d) ==
    \/ Len(d.items) = 0
    \/ d.date.k = "none"
    \/ LineItems(d, Len(d.items)).raised
    \/ Iban(d).k = "none"

\* strftime on a None date, a float() of the loop or replace on a None IBAN raises
Raises(d) ==
    \/ d.date.k = "none"
    \/ LineItems(d, Len(d.items)).raised
    \/ Iban(d).k = "none"

\* the document tree, given what the loop left: its fragments and totals
Document(d, clock, clock_terms, loop) ==
              [
                ExchangedDocument |->
                    << El("ID", Absent, Get(d.id, Lit("INV-001"))),
                       El("TypeCode", Absent, Lit("380")),
                       El("IssueDateTime", Lit("102"), Fmt102(IssueDate(d, clock).v)) >>,
                IncludedSupplyChainTradeLineItem |-> loop.fragments,
                SellerTradeParty |-> [
                    Name |-> PartyName(d.sender, Lit("Seller Name")),
                    PostalTradeAddress |-> PostalTradeAddress(d.sender),
                    SpecifiedTaxRegistration |-> SpecifiedTaxRegistration(d)],
                ReferencedDocuments |-> ReferencedDocuments(d),
                BuyerTradeParty |-> [
                    ID |-> IF Truthy(Get(d.customer_id, None))
                           THEN <<d.customer_id>> ELSE <<>>,
                    Name |-> PartyName(d.recipient, Lit("Buyer Name")),
                    PostalTradeAddress |-> PostalTradeAddress(d.recipient)],
                ApplicableHeaderTradeDelivery |-> <<>>,
                InvoiceCurrencyCode |-> Lit("EUR"),
                SpecifiedTradeSettlementPaymentMeans |-> PaymentMeans(d),
                ApplicableTradeTax |-> HeaderTradeTax(loop.total_net, loop.total_tax),
                DueDateDateTime |-> El("DateTimeString", Lit("102"), Fmt102(DueDate(d, clock_terms).v)),
                MonetarySummation |-> MonetarySummation(loop.total_net, loop.total_tax)]

generate_facturx_xml(d, clock, clock_terms) ==
    IF Raises(d) THEN Raised
    ELSE [status |-> "ok",
          doc |-> Document(d, clock, clock_terms, LineItems(d, Len(d.items)))]

---------------------------------------------------------------------------
(* The records drawn *)

NoParty == [k |-> "absent", name |-> Absent, address_lines |-> <<>>]
Party(name, address_lines) == [k |-> "dict", name |-> name, address_lines |-> address_lines]
NoFooter == [k |-> "absent", iban |-> Absent]
Footer(iban) == [k |-> "dict", iban |-> iban]

\* an item with the keys the REST endpoint gives it (api.py)
ApiItem(p, q, r) ==
    [id |-> Absent, name |-> Lit("Consulting"), Description |-> Absent,
     price |-> p, PricePerHour |-> Absent,
     qty |-> q, QuantityHours |-> Absent,
     vat_percent |-> r, Total |-> Absent, Tax19 |-> Absent,
     global_id |-> Absent, global_id_scheme |-> Absent]

\* such items: with a price and a quantity that are numbers, and with one of
\* the two missing, None, a str (numeric or not) or negative
ApiItems ==
    {ApiItem(p, q, r) : p \in {Num(1), Num(2)}, q \in {Num(1), Num(3)}, r \in {Absent, Whole(7)}}
    \cup {ApiItem(p, Num(1), Absent) : p \in {Absent, Str(<<"B">>)}}
    \cup {ApiItem(Num(2), q, Absent) : q \in {Absent, None, Str(<<"B">>), Str(<<"2">>), Num(-1)}}

\* an item as the form's table holds it (app.py), with its "Total (EUR)" and
\* "Tax 19% (EUR)" columns
UiItems ==
    { [id |-> Absent, name |-> Absent, Description |-> Lit("Consulting Services"),
       price |-> Absent, PricePerHour |-> Num(2),
       qty |-> Absent, QuantityHours |-> q,
       vat_percent |-> Absent, Total |-> t[1], Tax19 |-> t[2],
       global_id |-> Absent, global_id_scheme |-> Absent] :
      q \in {Num(1), Num(3)},
      t \in {<<Absent, Absent>>, <<Whole(5), Whole(1)>>} }

DefaultItem ==
    [id |-> Absent, name |-> Absent, Description |-> Lit("Consulting Services"),
     price |-> Absent, PricePerHour |-> Whole(1),
     qty |-> Absent, QuantityHours |-> Whole(1),
     vat_percent |-> Absent, Total |-> Whole(1), Tax19 |-> Absent,
     global_id |-> Absent, global_id_scheme |-> Absent]

TaxIdInputs ==
    { Absent, None, Str(<<>>), Str(<<" ">>), Str(<<"\t">>), Str(<<"D", "D">>),
      Str(<<"D", "D", "1">>), Str(<<"1", "2">>), Str(<<"D", " ", "D", "1">>) }

DefaultRecord ==
    [id |-> Lit("INV-2026-001"),
     date |-> Date(10),
     due_date |-> Absent,
     delivery_date |-> Absent,
     sender |-> Party(Lit("My Company GmbH"), << <<"Main Street 1">>, <<"1", "2", " ", "B">> >>),
     sender_tax_id |-> Str(<<"D", "D", "1">>),
     recipient |-> Party(Lit("Client Corp"), << <<"Side Street 2">>, <<"B", " ", "1">> >>),
     customer_id |-> Absent,
     project_id |-> Absent,
     order_id |-> Absent,
     items |-> <<DefaultItem>>,
     footer |-> Footer(Str(<<"D", "1", " ", "2">>)),
     unit_code |-> Absent]

\* records that vary in their header fields
HeaderRecords ==
    { [DefaultRecord EXCEPT !.date = dt, !.due_date = due, !.sender_tax_id = id,
                            !.footer = f, !.items = its] :
      dt \in {Absent, Date(10)},
      due \in {Absent, None, Date(30)},
      id \in TaxIdInputs,
      f \in {NoFooter, Footer(Absent), Footer(Str(<<>>)), Footer(Str(<<"D", "1", " ", "2">>))},
      its \in {<<>>, <<DefaultItem>>} }

\* records that vary in their delivery date and in their seller: no sender, a
\* sender without a name, and the empty name of a blank sender box (app.py)
PartyRecords ==
    { [DefaultRecord EXCEPT !.delivery_date = dd, !.sender = s] :
      dd \in {Absent, Date(12), DateRange(12, 13)},
      s \in {NoParty, Party(Absent, <<>>), Party(Str(<<>>), <<>>),
             Party(Lit("My Company GmbH"), << <<"Main Street 1">>, <<"1", "2", " ", "B">> >>)} }

\* items that vary in their description, their product identifier and the
\* identifier the caller gives the line
ProductItems ==
    LET item == ApiItem(Num(2), Num(1), Absent)
    IN  { [item EXCEPT !.name = Str(<<>>), !.id = Lit("2")],
          [item EXCEPT !.name = Absent],
          [item EXCEPT !.name = Absent, !.Description = Str(<<>>)],
          [item EXCEPT !.id = Lit("7"), !.global_id = Lit("4006381333931"),
                       !.global_id_scheme = Lit("0160")],
          [item EXCEPT !.id = Lit("1"), !.global_id = Lit("4006381333931")],
          [item EXCEPT !.global_id_scheme = Lit("0160")],
          [item EXCEPT !.global_id = Str(<<>>), !.global_id_scheme = Lit("0160")] }

\* records whose lines are such items
ProductRecords ==
    { [DefaultRecord EXCEPT !.items = its] : its \in SeqsUpTo(ProductItems, MaxItems) }

\* records that vary in their line items
ItemRecords ==
    { [DefaultRecord EXCEPT !.items = its] : its \in SeqsUpTo(ApiItems \cup UiItems, MaxItems) }

TaxChars == {"D", "1", " ", "\t"}
LineChars == {"B", "1", " "}

---------------------------------------------------------------------------
(* Calls of generate_facturx_xml in flight at once.  A call runs in three   *)
(* kinds of step: it enters and writes the document header, it runs one     *)
(* iteration of the line-item loop, it writes the rest, serializes and      *)
(* returns.  Everything it assigns is a local of the call.                  *)

Callers == 1..MaxCalls

\* NAMESPACES: prefix and URI
NAMESPACES ==
    [rsm |-> "urn:un:unece:uncefact:data:standard:CrossIndustryInvoice:100",
     ram |-> "urn:un:unece:uncefact:data:standard:ReusableAggregateBusinessInformationEntity:100",
     udt |-> "urn:un:unece:uncefact:data:standard:UnqualifiedDataType:100",
     qdt |-> "urn:un:unece:uncefact:data:standard:QualifiedDataType:100"]

\* the registry after the import: ET.register_namespace(prefix, uri) for each
Registered == {<<NAMESPACES[prefix], prefix>> : prefix \in DOMAIN NAMESPACES}

\* the records the callers hand in: with one and two items, with an item
\* whose float() raises, and with no item and no issue date
CallRecords ==
    { [DefaultRecord EXCEPT !.items = its] :
        its \in { <<ApiItem(Num(1), Num(3), Absent)>>,
                  <<ApiItem(Num(2), Num(3), Whole(7)), ApiItem(Num(1), Num(1), Absent)>>,
                  <<ApiItem(Num(2), Num(1), Absent), ApiItem(Str(<<"B">>), Num(1), Absent)>> } }
    \cup { [DefaultRecord EXCEPT !.date = Absent, !.footer = NoFooter, !.items = <<>>] }

\* no call: the locals before generate_facturx_xml is entered
NoCall ==
    [pc |-> "idle", data |-> DefaultRecord, clock |-> 0, clock_terms |-> 0,
     idx |-> 0, fragments |-> <<>>, total_net |-> 0, total_tax |-> 0,
     prefixes |-> {}, result |-> NotCalled]

\* the locals of call t after it raised
RaisedIn(t) == [calls[t] EXCEPT !.pc = "done", !.result = Raised]

\* caller t calls generate_facturx_xml(d): root, context and ExchangedDocument
\* are built, the clock is read for the issue date, the totals start at 0.0
Enter(t) ==
    /\ calls[t].pc = "idle"
    /\ \E d \in CallRecords :
          calls' = [calls EXCEPT ![t] =
                       IF d.date.k = "none"
                       THEN [NoCall EXCEPT !.pc = "done", !.data = d, !.result = Raised]
                       ELSE [NoCall EXCEPT !.pc = "loop", !.data = d, !.clock = today]]
    /\ UNCHANGED <<today, data, xml, prev_xml, tax_id, tax_scheme, lines, address, api,
                   namespace_map, counter_file, sessions>>

\* (a variant whose document tree is one object shared by the calls: the line
\* is appended for every call that is in its loop)
Iterate_shared_tree(t) ==
    /\ calls[t].pc = "loop"
    /\ calls[t].idx < Len(calls[t].data.items)
    /\ LET item == calls[t].data.items[calls[t].idx + 1]
           line == LineItem(item, calls[t].idx + 1, Get(calls[t].data.unit_code, Lit("HUR")))
       IN  IF ItemRaises(item)
           THEN calls' = [calls EXCEPT ![t] = RaisedIn(t)]
           ELSE calls' = [u \in Callers |->
                    IF u = t
                    THEN [calls[t] EXCEPT !.idx = @ + 1,
                                          !.fragments = Append(@, line),
                                          !.total_net = @ + NetLine(item),
                                          !.total_tax = @ + TaxLine(item)]
                    ELSE IF calls[u].pc = "loop"
                    THEN [calls[u] EXCEPT !.fragments = Append(@, line)]
                    ELSE calls[u]]
    /\ UNCHANGED <<today, data, xml, prev_xml, tax_id, tax_scheme, lines, address, api,
                   namespace_map, counter_file, sessions>>

\* one iteration of the loop of call t: the next item's line is appended to
\* the call's tree and added to the call's totals, or its float() raises
Iterate(t) ==
    /\ calls[t].pc = "loop"
    /\ calls[t].idx < Len(calls[t].data.items)
    /\ LET item == calls[t].data.items[calls[t].idx + 1]
           line == LineItem(item, calls[t].idx + 1, Get(calls[t].data.unit_code, Lit("HUR")))
       IN  IF ItemRaises(item)
           THEN calls' = [calls EXCEPT ![t] = RaisedIn(t)]
           ELSE calls' = [calls EXCEPT ![t] =
                    [calls[t] EXCEPT !.idx = @ + 1,
                                     !.fragments = Append(@, line),
                                     !.total_net = @ + NetLine(item),
                                     !.total_tax = @ + TaxLine(item)]]
    /\ UNCHANGED <<today, data, xml, prev_xml, tax_id, tax_scheme, lines, address, api,
                   namespace_map, counter_file, sessions>>

\* after the loop call t writes agreement, delivery and settlement (the clock
\* is read again for the payment terms), serializes its tree with the
\* registered prefixes and returns
Return(t) ==
    /\ calls[t].pc = "loop"
    /\ calls[t].idx = Len(calls[t].data.items)
    /\ calls' = [calls EXCEPT ![t] =
          IF Iban(calls[t].data).k = "none"
          THEN RaisedIn(t)
          ELSE [calls[t] EXCEPT
                  !.pc = "done",
                  !.clock_terms = today,
                  !.prefixes = namespace_map,
                  !.result =
                      [status |-> "ok",
                       doc |-> Document(calls[t].data, calls[t].clock, today,
                                        [raised |-> FALSE,
                                         fragments |-> calls[t].fragments,
                                         total_net |-> calls[t].total_net,
                                         total_tax |-> calls[t].total_tax])]]]
    /\ UNCHANGED <<today, data, xml, prev_xml, tax_id, tax_scheme, lines, address, api,
                   namespace_map, counter_file, sessions>>

---------------------------------------------------------------------------
(* The form (app.py): the invoice counter and 'Generate Invoice'.  Every    *)
(* session runs the script on its own; the sessions share .invoice_counter. *)
(* The file is no file (Absent) or its text; open(..., "w") empties it      *)
(* before the count is written.                                             *)

Sessions == 1..MaxSessions

DecimalDigits == <<"0", "1", "2", "3", "4", "5", "6", "7", "8", "9">>

RECURSIVE ParseDecimal(_)
\* the number a string of decimal digits spells
ParseDecimal(s) ==
    IF s = <<>> THEN 0
    ELSE 10 * ParseDecimal(SubSeq(s, 1, Len(s) - 1))
         + (CHOOSE n \in 0..9 : DecimalDigits[n + 1] = s[Len(s)])

\* int(s) of a str: anything but decimal digits raises ValueError
int(s) ==
    IF Len(s) > 0 /\ \A i \in 1..Len(s) : \E n \in 0..9 : DecimalDigits[n + 1] = s[i]
    THEN [ok |-> TRUE, n |-> ParseDecimal(s)]
    ELSE [ok |-> FALSE, n |-> 0]

RECURSIVE ZeroPad(_, _)
\* digits, filled with zeros on the left to a width
ZeroPad(digits, width) ==
    IF Len(digits) >= width THEN digits ELSE ZeroPad(<<"0">> \o digits, width)

\* f"INV-2026-{count:03d}"
InvoiceId(count) == Str(<<"INV-2026-">> \o ZeroPad(Decimal(count), 3))

\* get_next_invoice_id() -> (id, count), reading the file: no file, or a text
\* that is no number, counts as 1
get_next_invoice_id(file) ==
    LET count == IF file = Absent THEN 1
                 ELSE IF int(strip(file.s)).ok THEN int(strip(file.s)).n + 1
                 ELSE 1
    IN  [id |-> InvoiceId(count), count |-> count]

\* an invoice a session holds in zugferd_pdf: the "id" of its data record, and
\* whether that number was the pre-filled one
Invoice(id, prefilled) == [k |-> "invoice", id |-> id, prefilled |-> prefilled]
NoInvoice == [k |-> "none", id |-> Str(<<>>), prefilled |-> FALSE]

\* a session before its first run of the script: the session state
\* (invoice_id_manual, zugferd_pdf), whether the number in invoice_id_manual
\* is the pre-filled one, and the locals of 'Generate Invoice'
Closed ==
    [pc |-> "closed", invoice_id_manual |-> Str(<<>>), prefilled |-> FALSE,
     current_next |-> Str(<<>>), current_count |-> 0, zugferd_pdf |-> NoInvoice]

\* the numbers a user types into 'Invoice Number'
TypedNumbers == {InvoiceId(2)}

\* the first run of the script in session s: invoice_id_manual is not in the
\* session state and is set to the next number
OpenSession(s) ==
    /\ sessions[s].pc = "closed"
    /\ sessions' = [sessions EXCEPT ![s] =
          [@ EXCEPT !.pc = "idle",
                    !.invoice_id_manual = get_next_invoice_id(counter_file).id,
                    !.prefilled = TRUE]]
    /\ UNCHANGED <<today, data, xml, prev_xml, tax_id, tax_scheme, lines, address, api,
                   calls, namespace_map, counter_file>>

\* 'Clear All Settings': the number is reset to the next one
clear_settings(s) ==
    /\ sessions[s].pc = "idle"
    /\ sessions' = [sessions EXCEPT ![s] =
          [@ EXCEPT !.invoice_id_manual = get_next_invoice_id(counter_file).id,
                    !.prefilled = TRUE]]
    /\ UNCHANGED <<today, data, xml, prev_xml, tax_id, tax_scheme, lines, address, api,
                   calls, namespace_map, counter_file>>

\* the user types a number into 'Invoice Number'
TypeInvoiceNumber(s) ==
    /\ sessions[s].pc = "idle"
    /\ \E number \in TypedNumbers :
          sessions' = [sessions EXCEPT ![s] =
              [@ EXCEPT !.invoice_id_manual = number, !.prefilled = FALSE]]
    /\ UNCHANGED <<today, data, xml, prev_xml, tax_id, tax_scheme, lines, address, api,
                   calls, namespace_map, counter_file>>

\* 'Generate Invoice' is pressed:
\* current_next, current_count = get_next_invoice_id()
PressGenerate(s) ==
    /\ sessions[s].pc = "idle"
    /\ sessions' = [sessions EXCEPT ![s] =
          [@ EXCEPT !.pc = "compare",
                    !.current_next = get_next_invoice_id(counter_file).id,
                    !.current_count = get_next_invoice_id(counter_file).count]]
    /\ UNCHANGED <<today, data, xml, prev_xml, tax_id, tax_scheme, lines, address, api,
                   calls, namespace_map, counter_file>>

\* if invoice_id == current_next: save_invoice_counter(current_count) opens
\* the file for writing, which empties it
OpenCounter(s) ==
    /\ sessions[s].pc = "compare"
    /\ IF sessions[s].invoice_id_manual = sessions[s].current_next
       THEN /\ sessions[s].current_count <= MaxCount
            /\ counter_file' = Str(<<>>)
            /\ sessions' = [sessions EXCEPT ![s] = [@ EXCEPT !.pc = "write"]]
       ELSE /\ counter_file' = counter_file
            /\ sessions' = [sessions EXCEPT ![s] = [@ EXCEPT !.pc = "generate"]]
    /\ UNCHANGED <<today, data, xml, prev_xml, tax_id, tax_scheme, lines, address, api,
                   calls, namespace_map>>

\* f.write(str(count)), and the file is closed
WriteCounter(s) ==
    /\ sessions[s].pc = "write"
    /\ counter_file' = StrInt(sessions[s].current_count)
    /\ sessions' = [sessions EXCEPT ![s] = [@ EXCEPT !.pc = "generate"]]
    /\ UNCHANGED <<today, data, xml, prev_xml, tax_id, tax_scheme, lines, address, api,
                   calls, namespace_map>>

\* the data record is gathered with "id": invoice_id and the try block runs
\* to its end: XML, PDF and the combined file are generated and kept in the
\* session state; the run of the script ends, and with it its locals
GenerateInvoice(s) ==
    /\ sessions[s].pc = "generate"
    /\ sessions' = [sessions EXCEPT ![s] =
          [@ EXCEPT !.pc = "idle",
                    !.current_next = Str(<<>>),
                    !.current_count = 0,
                    !.zugferd_pdf = Invoice(sessions[s].invoice_id_manual,
                                            sessions[s].prefilled)]]
    /\ UNCHANGED <<today, data, xml, prev_xml, tax_id, tax_scheme, lines, address, api,
                   calls, namespace_map, counter_file>>

\* one of the calls of the try block raises: the error is shown, zugferd_pdf
\* is not assigned
GenerationFails(s) ==
    /\ sessions[s].pc = "generate"
    /\ sessions' = [sessions EXCEPT ![s] =
          [@ EXCEPT !.pc = "idle",
                    !.current_next = Str(<<>>),
                    !.current_count = 0]]
    /\ UNCHANGED <<today, data, xml, prev_xml, tax_id, tax_scheme, lines, address, api,
                   calls, namespace_map, counter_file>>

---------------------------------------------------------------------------
(* The REST endpoint (api.py): POST /generate-xml.  The handler has no await *)
(* and runs to its end in one step.  What the endpoint keeps of a request   *)
(* is the request, the status of the answer, whether generate_facturx_xml   *)
(* was called, the record it was called on, and the content of the answer.  *)

NoRequest ==
    [status |-> 0, req |-> <<>>, called |-> FALSE, internal_data |-> <<>>, content |-> <<>>]

\* class Item: vat_percent is a number or None, 19.0 when the body leaves it out
Item(qty, price, vat_percent) ==
    [name |-> Lit("Consulting"), qty |-> qty, price |-> price, vat_percent |-> vat_percent]

\* class InvoiceRequest, as the validation of the body leaves it; valid is
\* FALSE for a body the validation refuses
InvoiceRequest(valid, seller_tax_id, customer_id, items) ==
    [valid |-> valid,
     id |-> Lit("INV-2026-001"),
     issue_date |-> Date(10),
     seller |-> [name |-> Lit("My Company GmbH"),
                 address_lines |-> << <<"Main Street 1">>, <<"1", "2", " ", "B">> >>,
                 tax_id |-> seller_tax_id],
     buyer |-> [name |-> Lit("Client Corp"),
                address_lines |-> << <<"Side Street 2">>, <<"B", " ", "1">> >>,
                customer_id |-> customer_id],
     items |-> items]

\* the items of the requests posted: at the default rate, at a rate of None
\* (on which float() raises) and at 7%
RequestItems ==
    { Item(q, Num(2), r) : q \in {Num(1), Num(3)}, r \in {Whole(19), None} }
    \cup { Item(Num(1), Num(1), Whole(7)) }

\* the requests posted: with no item, with up to MaxItems items, and with a
\* body that is refused
InvoiceRequests ==
    { InvoiceRequest(TRUE, t, Absent, its) :
        t \in {None, Str(<<"D", "D", "1">>)}, its \in SeqsUpTo(RequestItems, MaxItems) }
    \cup { InvoiceRequest(FALSE, None, Absent, <<>>) }

\* internal_data: the request, mapped to the record of the compiler
InternalData(req) ==
    [id |-> req.id,
     date |-> req.issue_date,
     due_date |-> Absent,
     delivery_date |-> Absent,
     sender |-> Party(req.seller.name, req.seller.address_lines),
     sender_tax_id |-> req.seller.tax_id,
     recipient |-> Party(req.buyer.name, req.buyer.address_lines),
     customer_id |-> req.buyer.customer_id,
     project_id |-> Absent,
     order_id |-> Absent,
     items |-> [i \in 1..Len(req.items) |->
                   [ApiItem(req.items[i].price, req.items[i].qty, req.items[i].vat_percent)
                       EXCEPT !.name = req.items[i].name]],
     footer |-> Footer(Absent),
     unit_code |-> Lit("C62")]

\* the answer to a call of generate_facturx_xml: 200 with the XML, or 500 when
\* it raised
Answer(req, clock) ==
    LET result == generate_facturx_xml(InternalData(req), clock, clock)
    IN  [status |-> IF result.status = "ok" THEN 200 ELSE 500,
         req |-> req, called |-> TRUE, internal_data |-> InternalData(req),
         content |-> result.doc]

\* validation_exception_handler: a refused body is answered with 400, the
\* handler of the route is not run
validation_exception_handler(req) ==
    [status |-> 400, req |-> req, called |-> FALSE, internal_data |-> <<>>, content |-> <<>>]

\* (a variant that leaves the check of the items to the compiler)
generate_xml_without_check(req, clock) == Answer(req, clock)

\* generate_xml(req): 400 for a request without items, before anything is
\* mapped or generated
generate_xml(req, clock) ==
    IF Len(req.items) = 0
    THEN [status |-> 400, req |-> req, called |-> FALSE, internal_data |-> <<>>,
          content |-> <<>>]
    ELSE Answer(req, clock)

\* a request is posted and answered
PostGenerateXml ==
    /\ \E req \in InvoiceRequests :
          api' = IF req.valid THEN generate_xml(req, today)
                 ELSE validation_exception_handler(req)
    /\ UNCHANGED <<today, data, xml, prev_xml, tax_id, tax_scheme, lines, address,
                   calls, namespace_map, counter_file, sessions>>

---------------------------------------------------------------------------
(* The calls *)

NotClassified == [called |-> FALSE, result |-> NoneNone]
NotParsed == [called |-> FALSE, result |-> [line_one |-> <<>>, postcode |-> <<>>, city |-> <<>>]]

\* generate_facturx_xml(data)
Compile ==
    /\ xml' = generate_facturx_xml(data, today, today)
    /\ prev_xml' = xml
    /\ UNCHANGED <<today, data, tax_id, tax_scheme, lines, address, otherVars>>

\* generate_facturx_xml(data), midnight passing between its two reads of the
\* clock
CompileOverMidnight ==
    /\ today < MaxDay
    /\ xml' = generate_facturx_xml(data, today, today + 1)
    /\ prev_xml' = xml
    /\ today' = today + 1
    /\ UNCHANGED <<data, tax_id, tax_scheme, lines, address, otherVars>>

\* midnight passes
Tick ==
    /\ today < MaxDay
    /\ today' = today + 1
    /\ UNCHANGED <<data, xml, prev_xml, tax_id, tax_scheme, lines, address, otherVars>>

\* get_tax_scheme(tax_id)
CallGetTaxScheme ==
    /\ ~tax_scheme.called
    /\ tax_scheme' = [called |-> TRUE, result |-> get_tax_scheme(tax_id)]
    /\ UNCHANGED <<today, data, xml, prev_xml, tax_id, lines, address, otherVars>>

\* parse_address_fields(lines)
CallParseAddressFields ==
    /\ ~address.called
    /\ address' = [called |-> TRUE, result |-> parse_address_fields(lines)]
    /\ UNCHANGED <<today, data, xml, prev_xml, tax_id, tax_scheme, lines, otherVars>>

\* no call in flight, the prefixes registered, no counter file, no session,
\* no request
InitOther ==
    /\ calls = [t \in Callers |-> NoCall]
    /\ namespace_map = Registered
    /\ counter_file = Absent
    /\ sessions = [s \in Sessions |-> Closed]
    /\ api = NoRequest

InitCompiler ==
    /\ today = 0
    /\ xml = NotCalled
    /\ prev_xml = NotCalled
    /\ tax_id = None
    /\ tax_scheme = NotClassified
    /\ lines = <<>>
    /\ address = NotParsed
    /\ InitOther

Init == data \in HeaderRecords \cup PartyRecords /\ InitCompiler
InitItems == data \in ItemRecords \cup ProductRecords /\ InitCompiler

Next == Compile \/ CompileOverMidnight \/ Tick

\* the compiler on records that vary in their header fields
Spec == Init /\ [][Next]_vars

NextItems == Compile

\* the compiler on records that vary in their line items (and state their
\* issue date, so that the day of the call is of no effect)
SpecItems == InitItems /\ [][NextItems]_vars

InitTax ==
    /\ tax_id \in {None} \cup {Str(s) : s \in SeqsUpTo(TaxChars, MaxIdLen)}
    /\ tax_scheme = NotClassified
    /\ today = 0
    /\ data = DefaultRecord
    /\ xml = NotCalled
    /\ prev_xml = NotCalled
    /\ lines = <<>>
    /\ address = NotParsed
    /\ InitOther

NextTax == CallGetTaxScheme

\* get_tax_scheme on every identifier up to MaxIdLen characters
SpecTax == InitTax /\ [][NextTax]_vars

InitAddr ==
    /\ lines \in {<<>>}
          \cup {<<l>> : l \in SeqsUpTo(LineChars, MaxLineLen)}
          \cup {<<<<"Main Street 1">>, l>> : l \in SeqsUpTo(LineChars, MaxLineLen)}
    /\ address = NotParsed
    /\ today = 0
    /\ data = DefaultRecord
    /\ xml = NotCalled
    /\ prev_xml = NotCalled
    /\ tax_id = None
    /\ tax_scheme = NotClassified
    /\ InitOther

NextAddr == CallParseAddressFields

\* parse_address_fields on every last line up to MaxLineLen characters
SpecAddr == InitAddr /\ [][NextAddr]_vars

InitCalls == data = DefaultRecord /\ InitCompiler

NextCalls == \E t \in Callers : Enter(t) \/ Iterate(t) \/ Return(t) \/ Tick

\* calls of generate_facturx_xml in flight at once, their steps interleaved
SpecCalls == InitCalls /\ [][NextCalls]_vars

InitApp == data = DefaultRecord /\ InitCompiler

NextApp ==
    \E s \in Sessions :
        \/ OpenSession(s)
        \/ clear_settings(s)
        \/ TypeInvoiceNumber(s)
        \/ PressGenerate(s)
        \/ OpenCounter(s)
        \/ WriteCounter(s)
        \/ GenerateInvoice(s)
        \/ GenerationFails(s)

\* the sessions of the form, their steps interleaved
SpecApp == InitApp /\ [][NextApp]_vars

InitApi == data = DefaultRecord /\ InitCompiler

NextApi == PostGenerateXml \/ Tick

\* the REST endpoint, one request after the other
SpecApi == InitApi /\ [][NextApi]_vars

---------------------------------------------------------------------------
(* Reading a compiled document *)

RECURSIVE SumSeq(_)
SumSeq(q) == IF q = <<>> THEN 0 ELSE Head(q) + SumSeq(Tail(q))

\* the amount written in element tag of the header monetary summation of xml
Summation(tag) == Child(xml.doc.MonetarySummation, tag).text.v

\* the LineTotalAmount of every line of a document, in order
LineTotals(doc) ==
    [i \in 1..Len(doc.IncludedSupplyChainTradeLineItem) |->
        Child(doc.IncludedSupplyChainTradeLineItem[i], "LineTotalAmount").text.v]

\* every net and tax amount a document states: per line, in the header tax
\* breakdown and in the monetary summation
Amounts(doc) ==
    << LineTotals(doc),
       Child(doc.ApplicableTradeTax, "CalculatedAmount").text.v,
       Child(doc.ApplicableTradeTax, "BasisAmount").text.v,
       [i \in 1..Len(doc.MonetarySummation) |-> doc.MonetarySummation[i].text.v] >>

\* the price and quantity every line of a document states
PricesAndQuantities(doc) ==
    [i \in 1..Len(doc.IncludedSupplyChainTradeLineItem) |->
        << Child(doc.IncludedSupplyChainTradeLineItem[i], "ChargeAmount").text.v,
           Child(doc.IncludedSupplyChainTradeLineItem[i], "BilledQuantity").text.v >>]

---------------------------------------------------------------------------
(* Claims *)

\* C1: for every compiled invoice with at least one line item, the header
\* TaxBasisTotalAmount equals the sum of the lines' LineTotalAmount, and
\* GrandTotalAmount equals TaxBasisTotalAmount + TaxTotalAmount.
C1_TotalsReconcile ==
    (xml.status = "ok" /\ Len(data.items) >= 1) =>
        /\ Summation("TaxBasisTotalAmount") = SumSeq(LineTotals(xml.doc))
        /\ Summation("GrandTotalAmount") =
               Summation("TaxBasisTotalAmount") + Summation("TaxTotalAmount")

\* two lines were compiled, one of them with a net that is no whole number of
\* cents before rounding, and tax was charged
C1_Witness ==
    /\ xml.status = "ok"
    /\ Len(data.items) = 2
    /\ \E i \in 1..2 : NetLine_unrounded(data.items[i]) % Cent # 0
    /\ Summation("TaxTotalAmount") > 0
    /\ Summation("GrandTotalAmount") > Summation("TaxBasisTotalAmount")

\* the values a caller may supply as an item's "Total (EUR)" and "Tax 19% (EUR)"
SuppliedTotals == {<<Absent, Absent>>, <<Whole(0), Whole(0)>>, <<Whole(5), Whole(1)>>}

\* the record d with its items' supplied totals replaced by those of f
WithSupplied(d, f) ==
    [d EXCEPT !.items =
        [i \in 1..Len(d.items) |-> [d.items[i] EXCEPT !.Total = f[i][1], !.Tax19 = f[i][2]]]]

\* C2: the amounts compiled depend only on quantity, price and rate: every
\* record that differs from the compiled one only in the totals and taxes its
\* items supply compiles to the same line totals and the same header totals.
C2_SuppliedTotalsIgnored ==
    xml.status = "ok" =>
        \A f \in [1..Len(data.items) -> SuppliedTotals] :
            LET other == generate_facturx_xml(WithSupplied(data, f), today, today)
            IN  other.status = "ok" /\ Amounts(other.doc) = Amounts(xml.doc)

\* a compiled line whose item supplies a total that is not its quantity times
\* its price, and whose LineTotalAmount is the product
C2_Witness ==
    /\ xml.status = "ok"
    /\ \E i \in 1..Len(data.items) :
          /\ data.items[i].Total.k = "num"
          /\ float(data.items[i].Total).f # NetLine_unrounded(data.items[i])
          /\ LineTotals(xml.doc)[i] * Cent = round2(NetLine_unrounded(data.items[i]))
          /\ LineTotals(xml.doc)[i] > 0

\* C3: compiling the same record twice yields the same XML, whenever the
\* compiler is called.
C3_Deterministic ==
    (prev_xml.status # "none") => xml = prev_xml

\* C4: when the invoice has no IBAN (absent or empty), the document holds no
\* SpecifiedTradeSettlementPaymentMeans element.
C4_NoIbanNoPaymentMeans ==
    (xml.status = "ok" /\ ~Truthy(Iban(data))) =>
        Len(xml.doc.SpecifiedTradeSettlementPaymentMeans) = 0

\* a value that parses as a non-negative number
NonNegativeNumber(x) == float(x).ok /\ float(x).f >= 0
ZeroUnlessValid(x) == IF x.k = "absent" \/ NonNegativeNumber(x) THEN x ELSE Num(0)

\* the record d with every quantity and unit price that is present and no
\* non-negative number replaced by 0
Sanitized(d) ==
    [d EXCEPT !.items =
        [i \in 1..Len(d.items) |->
            [d.items[i] EXCEPT !.qty = ZeroUnlessValid(@), !.price = ZeroUnlessValid(@),
                               !.QuantityHours = ZeroUnlessValid(@),
                               !.PricePerHour = ZeroUnlessValid(@)]]]

\* C5: a quantity or unit price that does not parse as a non-negative number
\* is compiled as 0: the call does not raise, and every line is compiled and
\* counted in the totals as if the value had been 0.
C5_BadNumbersDefaultToZero ==
    (xml.status # "none") =>
        /\ xml.status = "ok"
        /\ Len(xml.doc.IncludedSupplyChainTradeLineItem) = Len(data.items)
        /\ LET want == generate_facturx_xml(Sanitized(data), today, today).doc
           IN  /\ PricesAndQuantities(xml.doc) = PricesAndQuantities(want)
               /\ Amounts(xml.doc) = Amounts(want)

\* C6: an invoice with zero line items compiles without raising, to a document
\* with no line-item element whose LineTotalAmount, TaxBasisTotalAmount,
\* TaxTotalAmount, GrandTotalAmount and DuePayableAmount are all 0.00.
C6_NoItemsAllZero ==
    (xml.status # "none" /\ Len(data.items) = 0) =>
        /\ xml.status = "ok"
        /\ xml.doc.IncludedSupplyChainTradeLineItem = <<>>
        /\ \A tag \in {"LineTotalAmount", "TaxBasisTotalAmount", "TaxTotalAmount",
                       "GrandTotalAmount", "DuePayableAmount"} :
              Summation(tag) = 0

\* a record without items and without an issue date was compiled
C6_Witness ==
    /\ xml.status = "ok"
    /\ Len(data.items) = 0
    /\ data.date = Absent
    /\ Has(xml.doc.MonetarySummation, "DuePayableAmount")

\* an identifier that is missing, empty or made of whitespace only
IsBlank(id) == id.k # "str" \/ \A i \in 1..Len(id.s) : IsWhitespace(id.s[i])

\* C7: for an empty or whitespace-only tax identifier get_tax_scheme returns
\* (None, None), and the document holds no SpecifiedTaxRegistration.
C7_BlankIdNoRegistration ==
    (xml.status = "ok" /\ IsBlank(data.sender_tax_id)) =>
        /\ get_tax_scheme(Get(data.sender_tax_id, None)) = NoneNone
        /\ Len(xml.doc.SellerTradeParty.SpecifiedTaxRegistration) = 0

\* s without its leading and trailing whitespace
Trimmed(s) ==
    LET keep == {i \in 1..Len(s) : ~IsWhitespace(s[i])}
    IN  IF keep = {} THEN <<>>
        ELSE SubSeq(s, CHOOSE i \in keep : \A j \in keep : i <= j,
                       CHOOSE i \in keep : \A j \in keep : i >= j)

\* C8 as claimed: for every non-blank identifier get_tax_scheme returns it with
\* all whitespace removed, and classifies it VA exactly when the first two
\* characters of the cleaned identifier are alphabetic, whatever its length,
\* and FC otherwise.
C8_AsClaimed ==
    (tax_scheme.called /\ ~IsBlank(tax_id)) =>
        LET r == tax_scheme.result
        IN  /\ r.clean_id = Str(SelectSeq(tax_id.s, LAMBDA c : ~IsWhitespace(c)))
            /\ r.scheme \in {"VA", "FC"}
            /\ r.scheme = "VA" <=>
                  /\ Len(r.clean_id.s) >= 2
                  /\ IsAlphaChar(r.clean_id.s[1])
                  /\ IsAlphaChar(r.clean_id.s[2])

\* C8, amended: for every non-blank identifier get_tax_scheme returns it with
\* every space removed and the whitespace at its ends trimmed, and classifies
\* it VA exactly when the cleaned identifier is longer than two characters and
\* its first two characters are alphabetic, and FC otherwise.
C8_CleanedAndClassified ==
    (tax_scheme.called /\ ~IsBlank(tax_id)) =>
        LET r == tax_scheme.result
        IN  /\ r.clean_id = Str(Trimmed(SelectSeq(tax_id.s, LAMBDA c : c # " ")))
            /\ r.scheme \in {"VA", "FC"}
            /\ r.scheme = "VA" <=>
                  /\ Len(r.clean_id.s) > 2
                  /\ IsAlphaChar(r.clean_id.s[1])
                  /\ IsAlphaChar(r.clean_id.s[2])

\* an identifier with a space inside was cleaned and classified VA
C8_Witness ==
    /\ tax_scheme.called
    /\ tax_scheme.result.scheme = "VA"
    /\ \E i \in 1..Len(tax_id.s) : tax_id.s[i] = " "
    /\ Len(tax_scheme.result.clean_id.s) < Len(tax_id.s)

\* C9: the seller's tax-registration ID carries a schemeID attribute if and
\* only if the identifier was classified VA; one classified FC carries none.
C9_SchemeIdOnlyForVat ==
    xml.status = "ok" =>
        \A i \in 1..Len(xml.doc.SellerTradeParty.SpecifiedTaxRegistration) :
            LET id == Child(xml.doc.SellerTradeParty.SpecifiedTaxRegistration[i], "ID")
                scheme == get_tax_scheme(data.sender_tax_id).scheme
            IN  /\ id.attr # Absent <=> scheme = "VA"
                /\ id.attr # Absent => id.attr = Lit("VA")

\* a registration was written for an identifier classified FC, without schemeID
C9_Witness ==
    /\ xml.status = "ok"
    /\ Len(xml.doc.SellerTradeParty.SpecifiedTaxRegistration) = 1
    /\ get_tax_scheme(data.sender_tax_id).scheme = "FC"
    /\ Child(xml.doc.SellerTradeParty.SpecifiedTaxRegistration[1], "ID").attr = Absent
    /\ Child(xml.doc.SellerTradeParty.SpecifiedTaxRegistration[1], "ID").text.s # <<>>

\* the two parts of the last address line, trimmed and cut at its first space
LastLineParts == SplitFirstSpace(Trimmed(lines[Len(lines)]))

\* C10 as claimed: with more than one line and a last line of two parts, if
\* exactly one part is numeric it is the postcode and the other the city; if
\* neither or both are, the first part is the city and the second the postcode.
C10_AsClaimed ==
    (address.called /\ Len(lines) > 1 /\ Len(LastLineParts) = 2) =>
        LET first == LastLineParts[1]
            second == LastLineParts[2]
            r == address.result
        IN  IF isdigit(first) # isdigit(second)
            THEN IF isdigit(first)
                 THEN r.postcode = first /\ r.city = second
                 ELSE r.postcode = second /\ r.city = first
            ELSE r.city = first /\ r.postcode = second

\* C10, amended: with more than one line and a last line that, trimmed, has
\* two parts, if the first part is numeric it is the postcode and the second
\* the city, also when both are numeric; otherwise the first part is the city
\* and the second the postcode.
C10_PostcodeAndCity ==
    (address.called /\ Len(lines) > 1 /\ Len(LastLineParts) = 2) =>
        LET first == LastLineParts[1]
            second == LastLineParts[2]
            r == address.result
        IN  IF isdigit(first)
            THEN r.postcode = first /\ r.city = second
            ELSE r.city = first /\ r.postcode = second

\* a last line of two numeric parts was parsed: the first is the postcode
C10_Witness ==
    /\ address.called
    /\ Len(lines) > 1
    /\ Len(LastLineParts) = 2
    /\ isdigit(LastLineParts[1]) /\ isdigit(LastLineParts[2])
    /\ address.result.postcode = LastLineParts[1]
    /\ address.result.city = LastLineParts[2]

\* C11: whenever the record has a delivery date, the trade-delivery block of
\* the document states it as its occurrence date; of a date range, the start.
C11_DeliveryDateEmitted ==
    (xml.status = "ok" /\ data.delivery_date.k \in {"date", "range"}) =>
        /\ Has(xml.doc.ApplicableHeaderTradeDelivery, "OccurrenceDateTime")
        /\ Child(xml.doc.ApplicableHeaderTradeDelivery, "OccurrenceDateTime").text =
               Fmt102(data.delivery_date.v)

\* a party that gives no usable name: no party, no name, None or the empty name
NoUsableName(party) ==
    party.k = "absent" \/ party.name.k \in {"absent", "none"} \/ party.name = Str(<<>>)

\* C12: when the record gives no usable seller name, compilation does not fail
\* and the seller Name of the document is 'Seller Name'.
C12_SellerNameDefault ==
    (xml.status # "none" /\ NoUsableName(data.sender)) =>
        /\ xml.status = "ok"
        /\ xml.doc.SellerTradeParty.Name = Lit("Seller Name")

\* the leaves of line i of the compiled document
Line(i) == xml.doc.IncludedSupplyChainTradeLineItem[i]

\* the description an item gives: its name, or else its Description
DescriptionOf(item) == Get(item.name, item.Description)

\* C13: the product Name of every line whose item's description is absent or
\* the empty string is 'Item', and no product Name is empty.
C13_BlankNameIsItem ==
    xml.status = "ok" =>
        \A i \in 1..Len(data.items) :
            /\ DescriptionOf(data.items[i]) \in {Absent, Str(<<>>)} =>
                   Child(Line(i), "Name").text = Lit("Item")
            /\ Child(Line(i), "Name").text # Str(<<>>)

\* the day whose strftime("%Y%m%d") is the text of an element
Parse102(text) == CHOOSE d \in 0..(MaxDay + 100) : Fmt102(d) = text

\* C14: the due date the document states is the issue date it states plus 14
\* days when the record supplies no due date, and the supplied one otherwise.
C14_DueDateDefault ==
    xml.status = "ok" =>
        LET issue == Child(xml.doc.ExchangedDocument, "IssueDateTime").text
            due == xml.doc.DueDateDateTime.text
        IN  IF data.due_date.k = "date"
            THEN due = Fmt102(data.due_date.v)
            ELSE due = Fmt102(Parse102(issue) + 14)

\* the tags of the leaves of a line, in document order
Tags(line) == [i \in 1..Len(line) |-> line[i].tag]

\* an item supplies both a product identifier and its scheme
HasGlobalId(item) ==
    Truthy(Get(item.global_id, None)) /\ Truthy(Get(item.global_id_scheme, None))

\* what follows the product of a line: price, quantity, tax and summation
AfterProduct ==
    <<"ChargeAmount", "BilledQuantity", "TypeCode", "CategoryCode",
      "RateApplicablePercent", "LineTotalAmount">>

\* C15 as claimed: every line holds, in this order, its line id, the product
\* name, the global product identifier if both it and its scheme are supplied
\* (and only then), the unit price, the quantity with its unit code, the line
\* tax (type, category, rate) and the line total.
C15_AsClaimed ==
    xml.status = "ok" =>
        \A i \in 1..Len(data.items) :
            /\ Tags(Line(i)) =
                   <<"LineID", "Name">>
                   \o (IF HasGlobalId(data.items[i]) THEN <<"GlobalID">> ELSE <<>>)
                   \o AfterProduct
            /\ Child(Line(i), "BilledQuantity").attr # Absent

\* C15, amended: every line holds, in this order, its line id, the global
\* product identifier if both it and its scheme are supplied and non-empty (and
\* only then), the product name, the unit price, the quantity with its unit
\* code, the line tax (type, category, rate) and the line total.
C15_FixedOrder ==
    xml.status = "ok" =>
        \A i \in 1..Len(data.items) :
            /\ Tags(Line(i)) =
                   <<"LineID">>
                   \o (IF HasGlobalId(data.items[i]) THEN <<"GlobalID">> ELSE <<>>)
                   \o <<"Name">>
                   \o AfterProduct
            /\ Child(Line(i), "BilledQuantity").attr # Absent
            /\ HasGlobalId(data.items[i]) =>
                   /\ Child(Line(i), "GlobalID").text = data.items[i].global_id
                   /\ Child(Line(i), "GlobalID").attr = data.items[i].global_id_scheme

\* two lines were compiled: one states its item's product identifier before
\* its name, the other's item gives an identifier without a scheme and the
\* line states none
C15_Witness ==
    /\ xml.status = "ok"
    /\ Len(data.items) = 2
    /\ \E i, j \in 1..2 :
          /\ HasGlobalId(data.items[i])
          /\ Index(Line(i), "GlobalID") + 1 = Index(Line(i), "Name")
          /\ Truthy(Get(data.items[j].global_id, None))
          /\ ~HasGlobalId(data.items[j])
          /\ ~Has(Line(j), "GlobalID")

\* C16: an invoice of N items compiles to N lines, line i being that of the
\* i-th item and carrying LineID i, whatever identifier the item carries.
C16_LineIdsSequential ==
    xml.status = "ok" =>
        /\ Len(xml.doc.IncludedSupplyChainTradeLineItem) = Len(data.items)
        /\ \A i \in 1..Len(data.items) :
              /\ Child(Line(i), "LineID").text = StrInt(i)
              /\ DescriptionOf(data.items[i]) # Absent =>
                     Child(Line(i), "Name").text = DescriptionOf(data.items[i])

\* two items that carry identifiers of their own, not in the order of the
\* lines, were compiled to the lines 1 and 2
C16_Witness ==
    /\ xml.status = "ok"
    /\ Len(data.items) = 2
    /\ data.items[1].id = Lit("7")
    /\ data.items[2].id = Lit("1")
    /\ Child(Line(1), "LineID").text = Str(<<"1">>)
    /\ Child(Line(2), "LineID").text = Str(<<"2">>)

\* C17: in every compiled document DuePayableAmount equals GrandTotalAmount,
\* and ChargeTotalAmount and AllowanceTotalAmount are 0.00.
C17_DueIsGrandTotal ==
    xml.status = "ok" =>
        /\ Child(xml.doc.MonetarySummation, "DuePayableAmount").text =
               Child(xml.doc.MonetarySummation, "GrandTotalAmount").text
        /\ Child(xml.doc.MonetarySummation, "ChargeTotalAmount").text = Fmt2(0)
        /\ Child(xml.doc.MonetarySummation, "AllowanceTotalAmount").text = Fmt2(0)

\* a document with tax was compiled: its amount due is more than its net
C17_Witness ==
    /\ xml.status = "ok"
    /\ Summation("TaxTotalAmount") > 0
    /\ Summation("DuePayableAmount") = Summation("GrandTotalAmount")
    /\ Summation("DuePayableAmount") > Summation("TaxBasisTotalAmount")

\* C18: whatever the interleaving of the calls in flight, every call that has
\* returned or raised did what generate_facturx_xml does on its record alone,
\* with the same two readings of the clock, and serialized with the prefixes
\* registered at the import, which no call changes.
C18_CallsIndependent ==
    /\ namespace_map = Registered
    /\ \A t \in Callers :
          calls[t].pc = "done" =>
              /\ calls[t].result =
                     generate_facturx_xml(calls[t].data, calls[t].clock, calls[t].clock_terms)
              /\ calls[t].result.status = "ok" => calls[t].prefixes = Registered

\* two calls on different records, both with lines, have returned with
\* different totals, and both were in flight when midnight passed
C18_Witness ==
    \E t, u \in Callers :
        /\ t # u
        /\ calls[t].pc = "done" /\ calls[u].pc = "done"
        /\ calls[t].result.status = "ok" /\ calls[u].result.status = "ok"
        /\ Len(calls[t].data.items) = 2 /\ Len(calls[u].data.items) = 1
        /\ calls[t].result.doc.MonetarySummation # calls[u].result.doc.MonetarySummation
        /\ calls[t].clock < calls[t].clock_terms
        /\ calls[u].clock < calls[u].clock_terms
        /\ calls[t].clock = calls[u].clock

\* C19: two sessions that each keep the pre-filled invoice number never
\* generate invoices with the same number: no two sessions hold generated
\* invoices of the same, pre-filled, number.
C19_UniqueIds ==
    \A s, t \in Sessions :
        (/\ s # t
         /\ sessions[s].zugferd_pdf.k = "invoice" /\ sessions[s].zugferd_pdf.prefilled
         /\ sessions[t].zugferd_pdf.k = "invoice" /\ sessions[t].zugferd_pdf.prefilled)
        => sessions[s].zugferd_pdf.id # sessions[t].zugferd_pdf.id

\* C20: a 'Generate Invoice' whose generation fails leaves the counter file as
\* it was: it is not one that has written the file, which it does when the
\* number entered is the next one.
C20_FailureLeavesCounter ==
    [][\A s \in Sessions :
          GenerationFails(s) => sessions[s].invoice_id_manual # sessions[s].current_next]_vars

\* the count the file holds, as get_next_invoice_id reads it: no file, or a
\* text that is no number, holds no count
StoredCount(file) == get_next_invoice_id(file).count - 1

\* C21: the counter file changes only in a 'Generate Invoice' whose entered
\* number equals the next expected one, and what that action saves is the count
\* the file held when the saving began, plus one; so the stored count never
\* decreases.
C21_CounterOnlyAdvances ==
    [][counter_file' # counter_file =>
          \E s \in Sessions :
              /\ sessions[s].invoice_id_manual = sessions[s].current_next
              /\ \/ /\ OpenCounter(s)
                    /\ sessions[s].current_count = StoredCount(counter_file) + 1
                 \/ WriteCounter(s)]_vars

\* the rate line i of the compiled document states
LineRate(i) == Child(Line(i), "RateApplicablePercent").text

\* C22: whenever all lines of a compiled document state one VAT rate, the
\* header tax breakdown states that rate.
C22_HeaderRateIsLineRate ==
    (/\ xml.status = "ok"
     /\ Len(data.items) >= 1
     /\ \A i \in 1..Len(data.items) : LineRate(i) = LineRate(1)) =>
        Child(xml.doc.ApplicableTradeTax, "RateApplicablePercent").text = LineRate(1)

\* what element tag of the header tax breakdown of the compiled document states
HeaderTax(tag) == Child(xml.doc.ApplicableTradeTax, tag).text

\* C23: in every compiled document the header tax breakdown agrees with the
\* monetary summation: CalculatedAmount is TaxTotalAmount, and BasisAmount is
\* both TaxBasisTotalAmount and LineTotalAmount.
C23_BreakdownIsSummation ==
    xml.status = "ok" =>
        /\ HeaderTax("CalculatedAmount") =
               Child(xml.doc.MonetarySummation, "TaxTotalAmount").text
        /\ HeaderTax("BasisAmount") =
               Child(xml.doc.MonetarySummation, "TaxBasisTotalAmount").text
        /\ HeaderTax("BasisAmount") =
               Child(xml.doc.MonetarySummation, "LineTotalAmount").text

\* two lines were compiled at rates that differ, one of them with a net that
\* is no whole number of cents before rounding; the breakdown states their
\* tax, which is not 19% of their net
C23_Witness ==
    /\ xml.status = "ok"
    /\ Len(data.items) = 2
    /\ LineRate(1) # LineRate(2)
    /\ \E i \in 1..2 : NetLine_unrounded(data.items[i]) % Cent # 0
    /\ HeaderTax("CalculatedAmount").v > 0
    /\ HeaderTax("CalculatedAmount").v = Summation("TaxTotalAmount")
    /\ HeaderTax("CalculatedAmount").v #
           Fmt2(Mul(Summation("TaxBasisTotalAmount") * Cent,
                    Div(19 * Scale, 100 * Scale))).v

\* C24: a request whose items list is empty is answered with 400 and
\* generate_facturx_xml is not called for it; every record that
\* generate_facturx_xml is called on has at least one item.
C24_EmptyItemsRefused ==
    api.status # 0 =>
        /\ Len(api.req.items) = 0 => (api.status = 400 /\ ~api.called)
        /\ api.called => (Len(api.req.items) >= 1 /\ Len(api.internal_data.items) >= 1)

\* a request that passed the validation of its body with an empty items list
\* was answered
C24_Witness ==
    /\ api.status = 400
    /\ api.req.valid
    /\ api.req.items = <<>>
    /\ ~api.called

====
